---- MODULE Spec2Model ----
(***************************************************************************)
(* Model of the image studio: the useHistory hook (past / present /        *)
(* future over the asset list), the App component's state (active asset,   *)
(* processing set, generation status, result image) and its handlers, and  *)
(* the EditorCanvas component (image loading, drag selection, crop).       *)
(*                                                                         *)
(* One action is one browser event or one promise continuation, together   *)
(* with the renders and the effects, of App and of EditorCanvas, that      *)
(* React runs before the next event is delivered.                          *)
(*                                                                         *)
(* The specifications differ in the events the user and the browser        *)
(* deliver.  Spec is the library (imports, rows and check boxes, undo and  *)
(* redo, Images loading), SpecCalls the same with undo, redo and the       *)
(* toggle handler open to any caller, SpecSave the generation and its      *)
(* result once a.png is imported.  SpecFixed follows the pointer over the  *)
(* canvas once a.png is imported, with crops, clicks on the library, undo  *)
(* and redo, SpecCanvas the same with window resizes, SpecPair SpecFixed   *)
(* with two assets to switch between, SpecGeom the geometry of one drag.   *)
(***************************************************************************)
EXTENDS Naturals, Integers, Sequences, FiniteSets, Bags, TLC

VARIABLES
    history,                \* useHistory state: [past, present, future]
    selectedImageId,        \* App state: id of the active asset, or None
    selectedForProcessing,  \* App state: set of ids marked for processing
    prompt,                 \* App state: the prompt text
    status,                 \* App state: AppStatus
    errorMessage,           \* App state: error text or Null
    resultImage,            \* App state: data url of the result, or Null
    imports,                \* handleImagesUploaded calls suspended at an await
    now,                    \* the value Date.now() returns
    rnd,                    \* number of Math.random() draws made so far
    inputs,                 \* user inputs counted against MaxInputs so far
    issued,                 \* every id given to an asset so far
    objects,                \* number of UploadedImage objects created so far
    versions,               \* reference model: the linear list of versions
    cursor,                 \* reference model: index of the current version
    lastEvent,              \* the last event that wrote the collection, the active
                            \* id or the processing set
    selection,              \* EditorCanvas state: the pending rectangle, if any
    isDragging,             \* EditorCanvas state
    startPos,               \* EditorCanvas state: the anchor of the drag
    imgElement,             \* EditorCanvas state: the loaded image, if any
    loading,                \* Image objects whose onload has not run yet: a bag
                            \* of the assets they were created for
    containerWidth,         \* clientWidth of the container of the canvas
    canvas,                 \* width and height of the canvas element, if there
                            \* is one
    lastCrop                \* what the last event did, if it was a click on the
                            \* crop button

vars == << history, selectedImageId, selectedForProcessing, prompt, status,
           errorMessage, resultImage, imports, now, rnd, inputs, issued,
           objects, versions, cursor, lastEvent, selection, isDragging,
           startPos, imgElement, loading, containerWidth, canvas, lastCrop >>

----------------------------------------------------------------------------
(* Bounds and values *)

\* User inputs of a behaviour that create or request something: files offered
\* to the uploader, crops, prompt edits and clicks on the generate button.
MaxInputs == 2

\* selectedImageId === null
None == << >>

\* null for the string-valued state (errorMessage, resultImage)
Null == "null"

\* Prompt texts the user may type: empty, blank, and a real instruction.
Prompts == { "", " ", "edit" }

\* prompt.trim(): the texts above without surrounding white space
Trim(p) == IF p = " " THEN "" ELSE p

\* File names offered by the file picker.
FileNames == { "a.png" }

\* Widths the container of the canvas takes as the window is resized.
ContainerWidths == { 15, 30 }
Wide == CHOOSE w \in ContainerWidths : \A v \in ContainerWidths : v <= w

\* const containerHeight = 500
containerHeight == 500

\* Natural sizes of the images the browser decodes.
Sizes == { [ width |-> 40, height |-> 20 ] }

\* Crops made in the behaviours that start with a.png imported and follow
\* the pointer over the canvas: of the MaxInputs inputs all but these are
\* taken to be made already.
MaxCrops == 1

\* Inputs made in the behaviours that start with a.png imported and an
\* instruction typed
MaxLate == 2

\* Images that may be loading at one time
MaxLoading == 2

\* Pointer coordinates, relative to the canvas, that the mouse events carry.
Xs == { 0, 20 }
Ys == { 0, 10 }

\* Natural sizes, container widths and pointer coordinates for the geometry
\* of the canvas.
GeomSizes == { [ width |-> 2000, height |-> 1000 ],
               [ width |-> 2000, height |-> 500 ],
               [ width |-> 1000, height |-> 2000 ],
               [ width |-> 103, height |-> 103 ] }
GeomWidths == { 333, 500 }
GeomXs == { 100, 105, 110, 150, 200 }
GeomYs == { 25, 50, 55, 60, 100 }

----------------------------------------------------------------------------
(* Assets and collections *)

\* ids of the assets of a collection; images.find(img => img.id === id) is
\* defined exactly when id \in Ids(images)
Ids(images) == { images[i].id : i \in 1..Len(images) }

\* Date.now().toString() + Math.random().toString(): the clock value and the
\* random draw; draws are taken to be pairwise distinct, so the n-th draw is n.
ImportId(t, r) == << t, r >>

\* Date.now().toString(): the clock value alone (no random suffix)
ClockId(t) == << t, 0 >>

\* UploadedImage: the fields the handlers read, and obj, which tells the
\* object from every other object (React compares the image prop by
\* reference): it is the n-th UploadedImage created. A name is the list of
\* its parts: a file's name, "Crop_" before the source's name,
\* "Gen_" ... ".png". Of the url only the size of the picture it encodes is
\* kept, where the program made the picture: the width and height of the
\* canvas whose toDataURL() a crop is; the url of a file and of a generated
\* image is what the file reader and the service gave.
FileAsset(t, r, fileName, n) ==
    [ id |-> ImportId(t, r), name |-> << fileName >>, url |-> << >>,
      obj |-> n ]
CropAsset(t, source, size, n) ==
    [ id |-> ClockId(t), name |-> << "Crop_" >> \o source.name,
      url |-> << size >>, obj |-> n ]
GenAsset(t, n) ==
    [ id |-> ClockId(t), name |-> << "Gen_", ".png" >>, url |-> << >>,
      obj |-> n ]

\* The natural sizes img.src = image.url can load with: a picture the
\* program made has the size it was made with, and the empty picture of a
\* canvas without width or height does not load at all
naturalSizes(a) ==
    IF a.url = << >> THEN Sizes
    ELSE IF a.url[1].width = 0 \/ a.url[1].height = 0 THEN {}
    ELSE { a.url[1] }

\* getActiveImage(): the first asset with the active id, as a sequence of
\* zero or one assets
getActiveImage(images, sel) ==
    IF sel \in Ids(images)
    THEN << images[CHOOSE i \in 1..Len(images) :
                      /\ images[i].id = sel
                      /\ \A j \in 1..(i-1) : images[j].id # sel] >>
    ELSE << >>

----------------------------------------------------------------------------
(* useHistory *)

canUndo(h) == Len(h.past) > 0
canRedo(h) == Len(h.future) > 0

\* undo taking the oldest past entry instead of the latest
undoOldest(h) ==
    IF Len(h.past) = 0 THEN h
    ELSE [ past    |-> SubSeq(h.past, 2, Len(h.past)),
           present |-> h.past[1],
           future  |-> << h.present >> \o h.future ]

undo(h) ==
    IF Len(h.past) = 0 THEN h
    ELSE [ past    |-> SubSeq(h.past, 1, Len(h.past) - 1),
           present |-> h.past[Len(h.past)],
           future  |-> << h.present >> \o h.future ]

\* redo pushing the old present onto the front of past instead of its end
redoFront(h) ==
    IF Len(h.future) = 0 THEN h
    ELSE [ past    |-> << h.present >> \o h.past,
           present |-> h.future[1],
           future  |-> SubSeq(h.future, 2, Len(h.future)) ]

\* redo taking the last future entry instead of the first
redoLast(h) ==
    IF Len(h.future) = 0 THEN h
    ELSE [ past    |-> h.past \o << h.present >>,
           present |-> h.future[Len(h.future)],
           future  |-> SubSeq(h.future, 1, Len(h.future) - 1) ]

redo(h) ==
    IF Len(h.future) = 0 THEN h
    ELSE [ past    |-> h.past \o << h.present >>,
           present |-> h.future[1],
           future  |-> SubSeq(h.future, 2, Len(h.future)) ]

\* set keeping the undone versions
setKeepFuture(h, resolvedState) ==
    [ past    |-> h.past \o << h.present >>,
      present |-> resolvedState,
      future  |-> h.future ]

\* set(newState) with newState already resolved against curr.present
set(h, resolvedState) ==
    [ past    |-> h.past \o << h.present >>,
      present |-> resolvedState,
      future  |-> << >> ]

\* an import putting its batch in the place of the collection
replaceImages(prev, newImages) == newImages

\* The updaters the handlers pass to setImages
appendImages(prev, newImages) == prev \o newImages
prependImage(prev, img) == << img >> \o prev

----------------------------------------------------------------------------
(* The "sync selections" effect *)

\* the cleanup dropping a stale active id without choosing the first image
syncToNone(images, sel) ==
    IF sel # None /\ sel \notin Ids(images) THEN None ELSE sel

\* the effect without the cleanup of selectedImageId
syncKeepId(images, sel) == sel

\* cleanup of selectedImageId
syncSelectedImageId(images, sel) ==
    IF sel # None /\ sel \notin Ids(images)
    THEN IF Len(images) > 0 THEN images[1].id ELSE None
    ELSE sel

\* the cleanup returning prev although ids were deleted from next
syncKeepPrev(images, proc) == proc

\* the cleanup with its test inverted: ids still in the list are deleted
syncInverted(images, proc) ==
    { id \in proc : id \notin Ids(images) }

\* cleanup of the processing set
syncSelectedForProcessing(images, proc) ==
    { id \in proc : id \in Ids(images) }

----------------------------------------------------------------------------
(* Reference model of the history: a list of versions and a cursor *)

RefSet(vs, c, f_of_current) == Append(SubSeq(vs, 1, c), f_of_current)
RefUndo(c) == IF c > 1 THEN c - 1 ELSE c
RefRedo(vs, c) == IF c < Len(vs) THEN c + 1 ELSE c

----------------------------------------------------------------------------
(* Events *)

\* What an event leaves behind for the properties below: its name, the number
\* of undone versions it discarded, the assets it added, the active id it
\* found and, for undo and redo, the processing set it found.
Made(op, cut, batch) ==
    [ op |-> op, cut |-> cut, batch |-> batch, sel |-> selectedImageId,
      proc |-> {} ]
Event(op) == Made(op, 0, << >>)
Navigated(op) == [ Event(op) EXCEPT !.proc = selectedForProcessing ]

\* What a click on the crop button leaves behind for the properties below,
\* until the next event: the Image it drew from and the source rectangle
NoCrop == [ outcome |-> "none", from |-> << >>, rect |-> << >> ]
Rejected == [ outcome |-> "rejected", from |-> << >>, rect |-> << >> ]
Cropped(img, rect) == [ outcome |-> "done", from |-> << img >>, rect |-> << rect >> ]

----------------------------------------------------------------------------
(* EditorCanvas: the size of the canvas, the rectangles, the renders *)

\* floor(log2(a / b)) for positive a and b
RECURSIVE floorLog2(_, _)
floorLog2(a, b) ==
    IF a >= 2 * b THEN floorLog2(a, 2 * b) + 1
    ELSE IF a < b THEN floorLog2(2 * a, b) - 1
    ELSE 0

\* 2^e
RECURSIVE pow2(_)
pow2(e) == IF e = 0 THEN 1 ELSE 2 * pow2(e - 1)

\* 2^e modulo m
RECURSIVE pow2mod(_, _)
pow2mod(e, m) ==
    IF e = 0 THEN 1 % m
    ELSE IF e % 2 = 1 THEN (2 * pow2mod(e - 1, m)) % m
    ELSE LET h == pow2mod(e \div 2, m) IN (h * h) % m

\* canvas.width = x * scale, where scale = a / b: the whole part of the
\* double nearest to x * q, q being the double nearest to a / b. With
\* q = m * 2^(j-52), m the whole number nearest to a * 2^(52-j) / b (the even
\* one of two), x * q is x * a / b + x * d / b * 2^(j-52), where
\* d = m * b - a * 2^(52-j). The product differs from x * a / b by far less
\* than 1 / b, so the whole part is that of x * a / b unless x * a / b is a
\* whole number i and the double nearest to the product is below i: that is
\* when q was rounded downwards by r = -d and the product is more than half
\* a step of the doubles below i away from i.
wholeOfScaled(x, a, b) ==
    LET i    == (x * a) \div b
        j    == floorLog2(a, b)
        r    == ((a % b) * pow2mod(52 - j, b)) % b
        r2   == ((a % (2 * b)) * pow2mod(52 - j, 2 * b)) % (2 * b)
        odd  == ((r2 - r) \div b) % 2 = 1
        up   == 2 * r > b \/ (2 * r = b /\ odd)
        k    == floorLog2(i, 1)
        s    == (IF i = pow2(k) THEN j + 2 ELSE j + 1) - k
        gap  == IF s >= 0 THEN x * r * pow2(s) ELSE x * r
        half == IF s >= 0 THEN b ELSE b * pow2(-s)
    IN  IF (x * a) % b # 0 THEN i
        ELSE IF r = 0 \/ up THEN i
        ELSE IF gap > half THEN i - 1
        ELSE i

\* draw(): the width and height given to the canvas; canvas.width and
\* canvas.height keep the whole part of the number assigned to them.
\* scale = Math.min(containerWidth / img.width, containerHeight / img.height)
canvasSize(img, cw) ==
    IF cw * img.height <= containerHeight * img.width
    THEN [ width  |-> wholeOfScaled(img.width, cw, img.width),
           height |-> wholeOfScaled(img.height, cw, img.width) ]
    ELSE [ width  |-> wholeOfScaled(img.width, containerHeight, img.height),
           height |-> wholeOfScaled(img.height, containerHeight, img.height) ]

\* cropCanvas.width = sourceW, cropCanvas.height = sourceH: the whole parts
\* of selection.width * scaleX and selection.height * scaleY
cropSize(sel, img, cv) ==
    [ width  |-> wholeOfScaled(sel.width, img.width, cv.width),
      height |-> wholeOfScaled(sel.height, img.height, cv.height) ]

\* The size of a canvas element that has not been given a width and height
defaultCanvas == [ width |-> 300, height |-> 150 ]

\* draw() called with the canvas cv (if there is one), the Image img (if
\* there is one) and the container width cw: the canvas after the call
draw(cv, img, cw) ==
    IF cv = << >> \/ img = << >> THEN cv ELSE << canvasSize(img[1], cw) >>

\* getMousePos(e) of the events the canvas can receive, with coordinates of
\* xs and ys: the pointer is over the canvas element
Points(xs, ys) ==
    IF canvas = << >> THEN {}
    ELSE { [ x |-> x, y |-> y ] : x \in { v \in xs : v < canvas[1].width },
                                  y \in { v \in ys : v < canvas[1].height } }

\* the rectangle from the anchor to the pointer with signed width and height
dragRectSigned(start, currentPos) ==
    [ x      |-> start.x,
      y      |-> start.y,
      width  |-> currentPos.x - start.x,
      height |-> currentPos.y - start.y ]

\* The rectangle handleMouseMove makes of the anchor and the pointer
dragRect(start, currentPos) ==
    LET width  == currentPos.x - start.x
        height == currentPos.y - start.y
    IN  [ x      |-> IF width < 0 THEN currentPos.x ELSE start.x,
          y      |-> IF height < 0 THEN currentPos.y ELSE start.y,
          width  |-> IF width < 0 THEN -width ELSE width,
          height |-> IF height < 0 THEN -height ELSE height ]

\* handleCrop's test "Ignore tiny crops"
tooSmall(sel) == sel.width < 10 \/ sel.height < 10

\* The condition under which the crop button is rendered
cropButton(sel) == sel # << >> /\ sel[1].width > 10

\* the source rectangle with the ratio of the widths used for both axes
sourceRectUniform(sel, img, cv) ==
    [ x      |-> << sel.x * img.width, cv.width >>,
      y      |-> << sel.y * img.width, cv.width >>,
      width  |-> << sel.width * img.width, cv.width >>,
      height |-> << sel.height * img.width, cv.width >> ]

\* sourceX, sourceY, sourceW, sourceH of handleCrop, each a fraction
\* << numerator, denominator >>:  selection.x * (img.width / canvas.width) ...
sourceRect(sel, img, cv) ==
    [ x      |-> << sel.x * img.width, cv.width >>,
      y      |-> << sel.y * img.height, cv.height >>,
      width  |-> << sel.width * img.width, cv.width >>,
      height |-> << sel.height * img.height, cv.height >> ]

\* One render of EditorCanvas and the effects that follow it: st is the
\* state of the component, prev the image prop of the render before, img
\* the image prop now. The "load image" effect runs when the image prop is
\* another object than before: without image it empties imgElement and the
\* selection, with one it creates an Image, whose onload comes later.
\* Without image the component renders no canvas; the canvas of a later
\* render is a new element.
rendered(st, prev, img) ==
    IF img = prev THEN st
    ELSE IF img = << >>
    THEN [ st EXCEPT !.selection = << >>, !.imgElement = << >>,
                     !.canvas = << >> ]
    ELSE [ st EXCEPT !.loading = @ (+) SetToBag({ img[1] }),
                     !.canvas = IF prev = << >> THEN << defaultCanvas >>
                                ELSE @ ]

\* The renders that follow an event of App. id is the active id and sel the
\* selection the event's handlers left. The first render shows the asset
\* found under id, the "sync selections" effect of App then replaces an id
\* the collection does not hold, and a second render shows the asset found
\* under the new id. The "draw" effect runs when the selection is another
\* one than before.
Rendered(id, sel) ==
    LET old == getActiveImage(history.present, selectedImageId)
        mid == getActiveImage(history'.present, id)
        new == getActiveImage(history'.present, selectedImageId')
        st  == [ selection  |-> sel,
                 imgElement |-> imgElement,
                 loading    |-> loading,
                 canvas     |-> IF sel # selection
                                THEN draw(canvas, imgElement, containerWidth)
                                ELSE canvas ]
        end == rendered(rendered(st, old, mid), mid, new)
    IN  /\ BagCardinality(end.loading) <= MaxLoading
        /\ selection' = end.selection
        /\ imgElement' = end.imgElement
        /\ loading' = end.loading
        /\ canvas' = end.canvas

\* What an event of App that leaves id as the active id does to the canvas
AppEvent(id) ==
    /\ Rendered(id, selection)
    /\ lastCrop' = NoCrop
    /\ UNCHANGED << isDragging, startPos, containerWidth >>

\* An event that leaves the collection and the active id alone leaves the
\* canvas alone
Still ==
    /\ lastCrop' = NoCrop
    /\ UNCHANGED << selection, isDragging, startPos, imgElement, loading,
                    containerWidth, canvas >>

----------------------------------------------------------------------------
(* The events of App *)

Init ==
    /\ history = [ past |-> << >>, present |-> << >>, future |-> << >> ]
    /\ selectedImageId = None
    /\ selectedForProcessing = {}
    /\ prompt = ""
    /\ status = "IDLE"
    /\ errorMessage = Null
    /\ resultImage = Null
    /\ imports = << >>
    /\ now = 0
    /\ rnd = 0
    /\ inputs = 0
    /\ issued = {}
    /\ objects = 0
    /\ versions = << << >> >>
    /\ cursor = 1
    /\ lastEvent = Event("init")
    /\ selection = << >>
    /\ isDragging = FALSE
    /\ startPos = [ x |-> 0, y |-> 0 ]
    /\ imgElement = << >>
    /\ loading = EmptyBag
    /\ containerWidth = Wide
    /\ canvas = << >>
    /\ lastCrop = NoCrop

genVars == << prompt, status, errorMessage, resultImage >>
histVars == << history, versions, cursor >>
selVars == << selectedImageId, selectedForProcessing >>
idVars == << rnd, issued, objects >>

\* The clock advances. The clock is read only to make ids, and the id of a
\* decoded file differs from every other id by its random draw whatever the
\* clock says, so only the instants at which a crop or a save took the bare
\* clock value as its id are told apart.
Tick ==
    /\ ClockId(now) \in issued
    /\ now' = now + 1
    /\ Still
    /\ UNCHANGED lastEvent
    /\ UNCHANGED << histVars, selVars, genVars, imports, idVars, inputs >>

\* handleFileChange -> handleImagesUploaded(files), up to its first await.
\* The call keeps the selectedImageId of the render that created it.
UploadFiles(files) ==
    /\ Len(files) > 0
    /\ inputs + Len(files) <= MaxInputs
    /\ imports' = Append(imports, [ files     |-> files,
                                    newImages |-> << >>,
                                    sel       |-> selectedImageId ])
    /\ inputs' = inputs + Len(files)
    /\ Still
    /\ UNCHANGED lastEvent
    /\ UNCHANGED << histVars, selVars, genVars, now, idVars >>

\* a failed decoding throwing away the files decoded before it
DecodedAbort(p, ok) ==
    IF ok THEN Append(p.newImages, FileAsset(now, rnd + 1, p.files[1], objects + 1))
    ELSE << >>

\* newImages after the await of the current file settles
Decoded(p, ok) ==
    IF ok THEN Append(p.newImages, FileAsset(now, rnd + 1, p.files[1], objects + 1))
    ELSE p.newImages

RemoveAt(s, i) == SubSeq(s, 1, i - 1) \o SubSeq(s, i + 1, Len(s))

\* The await of a file that is not the last one settles: the loop goes on to
\* the next file and suspends again.
FileDecoded(i, ok) ==
    /\ i \in 1..Len(imports)
    /\ Len(imports[i].files) > 1
    /\ imports' = [ imports EXCEPT ![i] =
                      [ files     |-> Tail(imports[i].files),
                        newImages |-> Decoded(imports[i], ok),
                        sel       |-> imports[i].sel ] ]
    /\ rnd' = IF ok THEN rnd + 1 ELSE rnd
    /\ issued' = IF ok THEN issued \cup { ImportId(now, rnd + 1) } ELSE issued
    /\ objects' = IF ok THEN objects + 1 ELSE objects
    /\ Still
    /\ UNCHANGED lastEvent
    /\ UNCHANGED << histVars, selVars, genVars, now, inputs >>

\* The await of the last file settles: the loop ends and the handler
\* commits; the render and the effects follow.
ImportCommit(i, ok) ==
    /\ i \in 1..Len(imports)
    /\ Len(imports[i].files) = 1
    /\ LET newImages == Decoded(imports[i], ok)
           images    == appendImages(history.present, newImages)
           auto      == imports[i].sel = None /\ Len(newImages) > 0
           sel       == IF auto THEN newImages[1].id ELSE selectedImageId
           proc      == IF auto THEN selectedForProcessing \cup { newImages[1].id }
                        ELSE selectedForProcessing
       IN  /\ history' = set(history, images)
           /\ versions' = RefSet(versions, cursor,
                                 appendImages(versions[cursor], newImages))
           /\ cursor' = cursor + 1
           /\ selectedImageId' = syncSelectedImageId(images, sel)
           /\ selectedForProcessing' = syncSelectedForProcessing(images, proc)
           /\ lastEvent' = Made("import", Len(history.future), newImages)
           /\ AppEvent(sel)
    /\ imports' = RemoveAt(imports, i)
    /\ rnd' = IF ok THEN rnd + 1 ELSE rnd
    /\ issued' = IF ok THEN issued \cup { ImportId(now, rnd + 1) } ELSE issued
    /\ objects' = IF ok THEN objects + 1 ELSE objects
    /\ UNCHANGED << genVars, now, inputs >>

\* App.handleCrop leaving the processing set as it is
handleCropUnmarked(croppedImage) ==
    LET images == prependImage(history.present, croppedImage)
    IN  /\ history' = set(history, images)
        /\ versions' = RefSet(versions, cursor,
                              prependImage(versions[cursor], croppedImage))
        /\ cursor' = cursor + 1
        /\ selectedImageId' = syncSelectedImageId(images, croppedImage.id)
        /\ selectedForProcessing' =
              syncSelectedForProcessing(images, selectedForProcessing)
        /\ lastEvent' = Made("crop", Len(history.future), << croppedImage >>)

\* App.handleCrop(croppedImage), the onCrop of EditorCanvas
handleCrop(croppedImage) ==
    LET images == prependImage(history.present, croppedImage)
    IN  /\ history' = set(history, images)
        /\ versions' = RefSet(versions, cursor,
                              prependImage(versions[cursor], croppedImage))
        /\ cursor' = cursor + 1
        /\ selectedImageId' = syncSelectedImageId(images, croppedImage.id)
        /\ selectedForProcessing' =
              syncSelectedForProcessing(
                  images, selectedForProcessing \cup { croppedImage.id })
        /\ lastEvent' = Made("crop", Len(history.future), << croppedImage >>)

\* The save button of ResultViewer: handleSaveResult(resultImage)
SaveResult ==
    /\ resultImage # Null
    /\ LET newImg == GenAsset(now, objects + 1)
           images == prependImage(history.present, newImg)
       IN  /\ history' = set(history, images)
           /\ versions' = RefSet(versions, cursor,
                                 prependImage(versions[cursor], newImg))
           /\ cursor' = cursor + 1
           /\ resultImage' = Null
           /\ selectedImageId' = syncSelectedImageId(images, newImg.id)
           /\ selectedForProcessing' =
                 syncSelectedForProcessing(images, selectedForProcessing)
           /\ issued' = issued \cup { newImg.id }
           /\ objects' = objects + 1
           /\ lastEvent' = Made("save", Len(history.future), << newImg >>)
           /\ AppEvent(newImg.id)
    /\ UNCHANGED << prompt, status, errorMessage, imports, now, rnd, inputs >>

\* The close button of ResultViewer
CloseResult ==
    /\ resultImage # Null
    /\ resultImage' = Null
    /\ Still
    /\ UNCHANGED lastEvent
    /\ UNCHANGED << histVars, selVars, prompt, status, errorMessage, imports,
                    now, idVars, inputs >>

\* A click on a row of the asset library: setSelectedImageId(img.id). The
\* "sync selections" effect runs when selectedImageId is another one than
\* before.
ClickImage(id) ==
    /\ id \in Ids(history.present)
    /\ IF id # selectedImageId
       THEN /\ selectedImageId' = syncSelectedImageId(history.present, id)
            /\ selectedForProcessing' =
                  syncSelectedForProcessing(history.present,
                                            selectedForProcessing)
       ELSE UNCHANGED << selectedImageId, selectedForProcessing >>
    /\ lastEvent' = Event("select")
    /\ UNCHANGED << histVars, genVars, imports, now, idVars, inputs >>
    /\ AppEvent(id)

\* toggleProcessingSelection(id)
toggleProcessingSelection(proc, id) ==
    IF id \in proc THEN proc \ { id } ELSE proc \cup { id }

\* A click on the check box of a row of the asset library
ToggleProcessing(id) ==
    /\ id \in Ids(history.present)
    /\ selectedForProcessing' =
          toggleProcessingSelection(selectedForProcessing, id)
    /\ lastEvent' = Event("toggle")
    /\ Still
    /\ UNCHANGED << histVars, selectedImageId, genVars, imports, now, idVars,
                    inputs >>

\* undo(), and the renders that follow it. The "sync selections" effect runs
\* when the hook's state is another one than before.
Undo ==
    /\ history' = undo(history)
    /\ cursor' = RefUndo(cursor)
    /\ IF canUndo(history)
       THEN /\ selectedImageId' =
                  syncSelectedImageId(history'.present, selectedImageId)
            /\ selectedForProcessing' =
                  syncSelectedForProcessing(history'.present,
                                            selectedForProcessing)
       ELSE UNCHANGED << selectedImageId, selectedForProcessing >>
    /\ lastEvent' = Navigated("undo")
    /\ AppEvent(selectedImageId)
    /\ UNCHANGED << versions, genVars, imports, now, idVars, inputs >>

\* redo(), and the renders that follow it. The "sync selections" effect runs
\* when the hook's state is another one than before.
Redo ==
    /\ history' = redo(history)
    /\ cursor' = RefRedo(versions, cursor)
    /\ IF canRedo(history)
       THEN /\ selectedImageId' =
                  syncSelectedImageId(history'.present, selectedImageId)
            /\ selectedForProcessing' =
                  syncSelectedForProcessing(history'.present,
                                            selectedForProcessing)
       ELSE UNCHANGED << selectedImageId, selectedForProcessing >>
    /\ lastEvent' = Navigated("redo")
    /\ AppEvent(selectedImageId)
    /\ UNCHANGED << versions, genVars, imports, now, idVars, inputs >>

\* onChange of the prompt text area
SetPrompt(p) ==
    /\ inputs < MaxInputs
    /\ p # prompt
    /\ prompt' = p
    /\ inputs' = inputs + 1
    /\ Still
    /\ UNCHANGED << histVars, selVars, status, errorMessage, resultImage,
                    imports, now, idVars, lastEvent >>

\* handleGenerate up to its await; the button is disabled while GENERATING
Generate ==
    /\ inputs < MaxInputs
    /\ status # "GENERATING"
    /\ IF Cardinality(selectedForProcessing) = 0
       THEN /\ errorMessage' = "Please select at least one image to edit/synthesize."
            /\ UNCHANGED status
       ELSE IF Trim(prompt) = ""
       THEN /\ errorMessage' = "Please enter a prompt describing the desired changes."
            /\ UNCHANGED status
       ELSE /\ status' = "GENERATING"
            /\ errorMessage' = Null
    /\ inputs' = inputs + 1
    /\ Still
    /\ UNCHANGED << histVars, selVars, prompt, resultImage, imports, now,
                    idVars, lastEvent >>

\* What the service does with a request: it answers with an image, or the
\* call fails with an error whose message is empty or is the text of the
\* error thrown when the answer holds no image
ServiceMessages == { "", "No image data found in the response." }
Responses ==
    { [ ok |-> TRUE, message |-> "" ] }
        \cup { [ ok |-> FALSE, message |-> m ] : m \in ServiceMessages }

\* generateImageEdit's catch putting its own text in place of every message
rethrownGeneric(message) == "Failed to generate image."

\* generateImageEdit's catch: throw new Error(error.message || "Failed ...")
rethrown(message) ==
    IF message = "" THEN "Failed to generate image." ELSE message

\* handleGenerate's catch: e.message || "An unknown error occurred."
shown(message) ==
    IF message = "" THEN "An unknown error occurred." ELSE message

\* generateImageEdit settles: a data url, or an Error with a message
GenerateSettled(r) ==
    /\ status = "GENERATING"
    /\ IF r.ok
       THEN /\ resultImage' = "data:image/png;base64"
            /\ status' = "SUCCESS"
            /\ UNCHANGED errorMessage
       ELSE /\ errorMessage' = shown(rethrown(r.message))
            /\ status' = "ERROR"
            /\ UNCHANGED resultImage
    /\ Still
    /\ UNCHANGED lastEvent
    /\ UNCHANGED << histVars, selVars, prompt, imports, now, idVars, inputs >>

\* The undo and redo buttons of the toolbar: disabled={!canUndo},
\* disabled={!canRedo}
UndoClick == canUndo(history) /\ Undo
RedoClick == canRedo(history) /\ Redo

FileLists == UNION { [ 1..k -> FileNames ] : k \in 1..MaxInputs }

\* toggleProcessingSelection(id) called with the id of any asset made so
\* far, whether the collection holds it or not
ToggleCall(id) ==
    /\ id \in issued
    /\ selectedForProcessing' =
          toggleProcessingSelection(selectedForProcessing, id)
    /\ lastEvent' = Event("toggle")
    /\ Still
    /\ UNCHANGED << histVars, selectedImageId, genVars, imports, now, idVars,
                    inputs >>

----------------------------------------------------------------------------
(* The events of EditorCanvas *)

\* img.onload of one of the Images the effect created
ImageLoaded(a, size) ==
    /\ BagIn(a, loading)
    /\ size \in naturalSizes(a)
    /\ imgElement' = << [ src |-> a, width |-> size.width,
                          height |-> size.height ] >>
    /\ selection' = << >>
    /\ loading' = loading (-) SetToBag({ a })
    /\ canvas' = draw(canvas, imgElement', containerWidth)
    /\ lastCrop' = NoCrop
    /\ UNCHANGED << isDragging, startPos, containerWidth >>
    /\ UNCHANGED << histVars, selVars, genVars, imports, now, idVars, inputs,
                    lastEvent >>

\* The canvas is rendered when there is an active image
mounted == getActiveImage(history.present, selectedImageId) # << >>

\* handleMouseDown
MouseDown(pos) ==
    /\ mounted
    /\ imgElement # << >>
    /\ isDragging' = TRUE
    /\ startPos' = pos
    /\ selection' = << [ x |-> pos.x, y |-> pos.y, width |-> 0, height |-> 0 ] >>
    /\ canvas' = draw(canvas, imgElement, containerWidth)
    /\ lastCrop' = NoCrop
    /\ UNCHANGED << imgElement, loading, containerWidth >>
    /\ UNCHANGED << histVars, selVars, genVars, imports, now, idVars, inputs,
                    lastEvent >>

\* handleMouseMove
MouseMove(currentPos) ==
    /\ mounted
    /\ IF isDragging /\ selection # << >>
       THEN /\ selection' = << dragRect(startPos, currentPos) >>
            /\ canvas' = draw(canvas, imgElement, containerWidth)
       ELSE UNCHANGED << selection, canvas >>
    /\ lastCrop' = NoCrop
    /\ UNCHANGED << isDragging, startPos, imgElement, loading, containerWidth >>
    /\ UNCHANGED << histVars, selVars, genVars, imports, now, idVars, inputs,
                    lastEvent >>

\* handleMouseUp throwing away a rectangle without area
MouseUpDiscardEmpty ==
    /\ mounted
    /\ isDragging' = FALSE
    /\ selection' = IF selection # << >>
                        /\ selection[1].width * selection[1].height = 0
                     THEN << >> ELSE selection
    /\ lastCrop' = NoCrop
    /\ UNCHANGED << startPos, imgElement, loading, containerWidth, canvas >>
    /\ UNCHANGED << histVars, selVars, genVars, imports, now, idVars, inputs,
                    lastEvent >>

\* handleMouseUp, for mouseup and for mouseleave
MouseUp ==
    /\ mounted
    /\ isDragging' = FALSE
    /\ lastCrop' = NoCrop
    /\ UNCHANGED << selection, startPos, imgElement, loading, containerWidth,
                    canvas >>
    /\ UNCHANGED << histVars, selVars, genVars, imports, now, idVars, inputs,
                    lastEvent >>

\* The window is resized: the listener calls draw(), which sizes the canvas
\* anew
Resize(w) ==
    /\ w # containerWidth
    /\ containerWidth' = w
    /\ canvas' = draw(canvas, imgElement, w)
    /\ lastCrop' = NoCrop
    /\ UNCHANGED << selection, isDragging, startPos, imgElement, loading >>
    /\ UNCHANGED << histVars, selVars, genVars, imports, now, idVars, inputs,
                    lastEvent >>

\* A click on the crop button: handleCrop of EditorCanvas, through onCrop
\* handleCrop of App, and the renders that follow
CropClick ==
    /\ mounted
    /\ cropButton(selection)
    /\ imgElement # << >>
    /\ IF tooSmall(selection[1])
       THEN /\ lastCrop' = Rejected
            /\ UNCHANGED << selection, isDragging, startPos, imgElement,
                            loading, containerWidth, canvas >>
            /\ UNCHANGED << histVars, selVars, genVars, imports, now, idVars,
                            inputs, lastEvent >>
       ELSE /\ inputs < MaxInputs
            /\ LET image        == getActiveImage(history.present,
                                                  selectedImageId)[1]
                   croppedImage == CropAsset(now, image,
                                             cropSize(selection[1],
                                                      imgElement[1], canvas[1]),
                                             objects + 1)
               IN  /\ handleCrop(croppedImage)
                   /\ issued' = issued \cup { croppedImage.id }
                   /\ lastCrop' = Cropped(imgElement[1],
                                          sourceRect(selection[1], imgElement[1],
                                                     canvas[1]))
                   /\ Rendered(croppedImage.id, << >>)
            /\ objects' = objects + 1
            /\ inputs' = inputs + 1
            /\ UNCHANGED << isDragging, startPos, containerWidth >>
            /\ UNCHANGED << genVars, imports, now, rnd >>

\* The first file offered to a fresh App has been imported: a.png is the
\* active asset and its Image is loading.
FirstAsset == FileAsset(0, 1, "a.png", 1)

\* The state of App when a.png has been imported into a fresh App, with p
\* typed as the prompt and n inputs counted
FirstImported(p, n) ==
    /\ history = set([ past |-> << >>, present |-> << >>, future |-> << >> ],
                     appendImages(<< >>, << FirstAsset >>))
    /\ selectedImageId = FirstAsset.id
    /\ selectedForProcessing = { FirstAsset.id }
    /\ prompt = p
    /\ status = "IDLE"
    /\ errorMessage = Null
    /\ resultImage = Null
    /\ imports = << >>
    /\ now = 0
    /\ rnd = 1
    /\ inputs = n
    /\ issued = { FirstAsset.id }
    /\ objects = 1
    /\ versions = RefSet(<< << >> >>, 1, << FirstAsset >>)
    /\ cursor = 2
    /\ lastEvent = [ op |-> "import", cut |-> 0, batch |-> << FirstAsset >>,
                     sel |-> None, proc |-> {} ]

\* The canvas when the first asset has become active: a new canvas element,
\* no Image yet, and the Image of the asset loading
FirstMounted(a) ==
    /\ selection = << >>
    /\ isDragging = FALSE
    /\ startPos = [ x |-> 0, y |-> 0 ]
    /\ imgElement = << >>
    /\ loading = SetToBag({ a })
    /\ containerWidth = Wide
    /\ canvas = << defaultCanvas >>
    /\ lastCrop = NoCrop

\* One of the Images that are loading has loaded
Loaded ==
    \E a \in BagToSet(loading) :
       \E size \in naturalSizes(a) : ImageLoaded(a, size)

\* The events the pointer causes on the canvas and its crop button
CanvasEvent ==
    \/ \E pos \in Points(Xs, Ys) : MouseDown(pos)
    \/ \E pos \in Points(Xs, Ys) : MouseMove(pos)
    \/ MouseUp
    \/ CropClick

\* The library of the program: files are imported, rows and check boxes of
\* the library and the history buttons are clicked, and the Images of the
\* active assets load. The pointer stays away from the canvas, which so
\* selects and crops nothing, and nothing is generated.
Next ==
    \/ \E files \in FileLists : UploadFiles(files)
    \/ \E i \in 1..Len(imports), ok \in BOOLEAN : FileDecoded(i, ok)
    \/ \E i \in 1..Len(imports), ok \in BOOLEAN : ImportCommit(i, ok)
    \/ \E id \in Ids(history.present) : ClickImage(id)
    \/ \E id \in Ids(history.present) : ToggleProcessing(id)
    \/ UndoClick
    \/ RedoClick
    \/ Loaded

Spec == Init /\ [][Next]_vars

\* The same with the toggle handler and the functions of the history hook
\* open to callers other than the check boxes and buttons
NextCalls ==
    \/ Next
    \/ \E id \in issued : ToggleCall(id)
    \/ Undo
    \/ Redo

SpecCalls == Init /\ [][NextCalls]_vars

InitCanvas ==
    /\ FirstImported("", MaxInputs - MaxCrops)
    /\ FirstMounted(FirstAsset)

\* The canvas in a window that keeps its width, and the events of App that
\* change what the canvas shows: clicks on the library, undo and redo, and
\* its own crops. No further file is imported, no result is generated, and
\* the clock stands still.
NextFixed ==
    \/ \E id \in Ids(history.present) : ClickImage(id)
    \/ UndoClick
    \/ RedoClick
    \/ Loaded
    \/ CanvasEvent

SpecFixed == InitCanvas /\ [][NextFixed]_vars

\* The same in a window that is resized
NextCanvas ==
    \/ NextFixed
    \/ \E w \in ContainerWidths : Resize(w)

SpecCanvas == InitCanvas /\ [][NextCanvas]_vars

\* A batch of two files offered to a fresh App has been imported: a.png is
\* the active asset, b.png is listed after it, and the Image of a.png is
\* loading.
SecondAsset == FileAsset(0, 2, "b.png", 2)

InitPair ==
    /\ history = set([ past |-> << >>, present |-> << >>, future |-> << >> ],
                     appendImages(<< >>, << FirstAsset, SecondAsset >>))
    /\ selectedImageId = FirstAsset.id
    /\ selectedForProcessing = { FirstAsset.id }
    /\ prompt = ""
    /\ status = "IDLE"
    /\ errorMessage = Null
    /\ resultImage = Null
    /\ imports = << >>
    /\ now = 0
    /\ rnd = 2
    /\ inputs = MaxInputs - MaxCrops
    /\ issued = { FirstAsset.id, SecondAsset.id }
    /\ objects = 2
    /\ versions = RefSet(<< << >> >>, 1, << FirstAsset, SecondAsset >>)
    /\ cursor = 2
    /\ lastEvent = [ op |-> "import", cut |-> 0,
                     batch |-> << FirstAsset, SecondAsset >>,
                     sel |-> None, proc |-> {} ]
    /\ FirstMounted(FirstAsset)

\* The canvas with two assets to switch between
SpecPair == InitPair /\ [][NextFixed]_vars

\* The generation from the moment a.png has been imported and an
\* instruction typed, with MaxLate inputs still to come: the prompt, the
\* check boxes, the generate button, the result and its buttons, undo and
\* redo, the Images loading, and the clock. No further file is imported and
\* the pointer stays away from the canvas.
InitSave ==
    /\ FirstImported("edit", MaxInputs - MaxLate)
    /\ FirstMounted(FirstAsset)

NextSave ==
    \/ Tick
    \/ \E id \in Ids(history.present) : ToggleProcessing(id)
    \/ \E p \in Prompts : SetPrompt(p)
    \/ Generate
    \/ \E r \in Responses : GenerateSettled(r)
    \/ SaveResult
    \/ CloseResult
    \/ UndoClick
    \/ RedoClick
    \/ Loaded

SpecSave == InitSave /\ [][NextSave]_vars

\* The geometry of a drag: a.png is shown with one of the natural sizes in a
\* container of one of the widths, and the pointer has just been pressed.
InitGeom ==
    \E size \in GeomSizes, w \in GeomWidths, x \in GeomXs, y \in GeomYs :
      /\ FirstImported("", MaxInputs - MaxCrops)
      /\ imgElement = << [ src |-> FirstAsset, width |-> size.width,
                           height |-> size.height ] >>
      /\ loading = EmptyBag
      /\ containerWidth = w
      /\ canvas = << canvasSize(size, w) >>
      /\ x < canvas[1].width
      /\ y < canvas[1].height
      /\ isDragging = TRUE
      /\ startPos = [ x |-> x, y |-> y ]
      /\ selection = << [ x |-> x, y |-> y, width |-> 0, height |-> 0 ] >>
      /\ lastCrop = NoCrop

NextGeom ==
    \/ \E pos \in Points(GeomXs, GeomYs) : MouseMove(pos)
    \/ MouseUp
    \/ CropClick

SpecGeom == InitGeom /\ [][NextGeom]_vars

----------------------------------------------------------------------------
(* Properties of the history *)

SetOps == { "import", "crop", "save" }

RECURSIVE UndoN(_, _)
UndoN(h, k) == IF k = 0 THEN h ELSE UndoN(undo(h), k - 1)

RECURSIVE RedoN(_, _)
RedoN(h, k) == IF k = 0 THEN h ELSE RedoN(redo(h), k - 1)

\* C1: when no version is undone, so that the versions S0 .. Sn are the
\* results of the set calls, k undo calls give present = S(n-k) for every
\* k = 1 .. n, n redo calls after the n undo calls give present = Sn again;
\* and wherever undo is possible, undo followed by redo restores past,
\* present and future exactly.
C1_UndoRedoRoundTrip ==
    LET n == Len(versions) - 1
    IN  /\ cursor = Len(versions) =>
              /\ \A k \in 1..n : UndoN(history, k).present = versions[n + 1 - k]
              /\ RedoN(UndoN(history, n), n).present = versions[n + 1]
        /\ canUndo(history) => redo(undo(history)) = history

\* C1 witness: three versions made by set calls, all undone and redone again
C1_Witness ==
    /\ lastEvent.op = "redo"
    /\ cursor = Len(versions)
    /\ Len(history.past) >= 2
    /\ history.future = << >>

\* C2: a state left by a set call (import commit, crop, save) has an empty
\* future, canRedo is false and redo changes nothing, also when the set call
\* followed an undo.
C2_SetClearsFuture ==
    lastEvent.op \in SetOps =>
        /\ history.future = << >>
        /\ ~canRedo(history)
        /\ redo(history) = history

\* C2 witness: a set call made after an undo has discarded the undone version
C2_Witness ==
    /\ lastEvent.op \in SetOps
    /\ lastEvent.cut > 0
    /\ ~canRedo(history)

\* C3: present is the version under the cursor of the reference model, which
\* truncates after the cursor and appends on set, and moves the cursor back
\* on undo and forward on redo.
C3_PresentIsReplay ==
    /\ cursor \in 1..Len(versions)
    /\ history.present = versions[cursor]

\* C3 witness: the cursor is strictly inside the list after undo and redo calls
C3_Witness ==
    /\ lastEvent.op = "redo"
    /\ cursor > 1
    /\ cursor < Len(versions)

\* C4: undo changes nothing exactly when past is empty, and otherwise moves
\* the last past entry into present and the old present to the front of
\* future; redo changes nothing exactly when future is empty, and otherwise
\* moves the first future entry into present and appends the old present to
\* past.
C4_UndoRedoSteps ==
    [][ /\ Undo =>
              /\ (history' = history) <=> ~canUndo(history)
              /\ canUndo(history) =>
                    /\ history'.present = history.past[Len(history.past)]
                    /\ history'.past = SubSeq(history.past, 1, Len(history.past) - 1)
                    /\ history'.future = << history.present >> \o history.future
        /\ Redo =>
              /\ (history' = history) <=> ~canRedo(history)
              /\ canRedo(history) =>
                    /\ history'.present = Head(history.future)
                    /\ history'.past = Append(history.past, history.present)
                    /\ history'.future = Tail(history.future)
      ]_vars

\* C4 witness: an undo arrived with nothing to undo and nothing undone
C4_Witness ==
    /\ lastEvent.op = "undo"
    /\ ~canUndo(history)
    /\ ~canRedo(history)

----------------------------------------------------------------------------
(* Properties of the reconciliation of the active id and the processing set *)

\* A step that calls set: the commit of an import, a crop, a save
SetStep ==
    \/ \E i \in 1..Len(imports), ok \in BOOLEAN : ImportCommit(i, ok)
    \/ CropClick /\ lastCrop'.outcome = "done"
    \/ SaveResult

\* C5: the ids marked for processing are ids of assets of the current
\* collection, in every state reached by imports, crops, saves, toggles,
\* clicks, undo and redo.
C5_ProcessingWithinCollection ==
    selectedForProcessing \subseteq Ids(history.present)

\* C5 witness: an undo took away a marked asset and left another one marked
C5_Witness ==
    /\ lastEvent.op = "undo"
    /\ lastEvent.proc \ Ids(history.present) # {}
    /\ selectedForProcessing # {}

\* C6: after an undo or a redo the processing set is the previous processing
\* set intersected with the ids of the new collection: nothing else is
\* removed and nothing is added.
C6_ProcessingPruned ==
    [][ (Undo \/ Redo) =>
           selectedForProcessing' =
               selectedForProcessing \cap Ids(history'.present) ]_vars

\* C6 witness: a redo brought back an asset that the collection before it
\* did not hold: the asset is not marked by the redo, and the marks found
\* are all kept
C6_Witness ==
    /\ lastEvent.op = "redo"
    /\ \E i \in 1..Len(history.present) :
          /\ history.present[i].id \notin Ids(history.past[Len(history.past)])
          /\ history.present[i].id \notin selectedForProcessing
    /\ selectedForProcessing = lastEvent.proc
    /\ selectedForProcessing # {}

\* The active id the reconciliation must leave for active id a and new
\* collection c
Reconciled(a, c) ==
    IF a = None THEN None
    ELSE IF \E i \in 1..Len(c) : c[i].id = a THEN a
    ELSE IF Len(c) = 0 THEN None
    ELSE Head(c).id

\* C7: after undo and redo the active id is unchanged if it is still in the
\* new collection, and otherwise the id of the first asset of the new
\* collection, or none if that is empty. After a set call the same holds of
\* the active id the reconciliation starts from: the one found by the
\* handler, or the first asset of its batch when the handler activated it.
C7_ActiveReconciled ==
    [][ /\ (Undo \/ Redo) =>
              selectedImageId' = Reconciled(selectedImageId, history'.present)
        /\ SetStep =>
              \/ selectedImageId' = Reconciled(selectedImageId, history'.present)
              \/ /\ lastEvent'.batch # << >>
                 /\ selectedImageId' =
                       Reconciled(lastEvent'.batch[1].id, history'.present)
      ]_vars

\* C7 witness: an undo took away the active asset, which a later import had
\* put beside the first one, and the first asset of the collection that is
\* left became active
C7_Witness ==
    /\ lastEvent.op = "undo"
    /\ lastEvent.sel # None
    /\ lastEvent.sel \notin Ids(history.present)
    /\ Len(history.present) >= 1
    /\ selectedImageId = history.present[1].id
    /\ canUndo(history)

----------------------------------------------------------------------------
(* Properties of asset creation and of imports *)

\* The collection snapshots the history holds
Snapshots ==
    { history.past[i] : i \in 1..Len(history.past) }
        \cup { history.present }
        \cup { history.future[i] : i \in 1..Len(history.future) }

\* C8: no snapshot holds two assets with one id, and no creation (decoded
\* file, crop, save) gives its asset an id that was given out before.
C8_IdsUnique ==
    /\ [](\A c \in Snapshots :
             \A i, j \in 1..Len(c) : c[i].id = c[j].id => i = j)
    /\ [][ /\ (\E i \in 1..Len(imports) :
                   FileDecoded(i, TRUE) \/ ImportCommit(i, TRUE))
               => ImportId(now, rnd + 1) \notin issued
           /\ ((CropClick /\ lastCrop'.outcome = "done") \/ SaveResult)
               => ClockId(now) \notin issued
         ]_vars

\* C9: the commit of an import is one history step (the old present is
\* appended to past, future is emptied) and the new present is the batch,
\* in batch order, followed by the previous collection.
C9_ImportPrepends ==
    [][ (\E i \in 1..Len(imports), ok \in BOOLEAN : ImportCommit(i, ok)) =>
           /\ history'.past = Append(history.past, history.present)
           /\ history'.future = << >>
           /\ history'.present = lastEvent'.batch \o history.present
      ]_vars

\* C10: the commit of an import activates and marks the first asset of its
\* batch exactly when no asset is active at the commit; when an asset is
\* active the active id and the processing set stay as they are.
C10_ImportAutoSelect ==
    [][ (\E i \in 1..Len(imports), ok \in BOOLEAN : ImportCommit(i, ok)) =>
           IF selectedImageId = None /\ lastEvent'.batch # << >>
           THEN /\ selectedImageId' = lastEvent'.batch[1].id
                /\ selectedForProcessing' =
                      selectedForProcessing \cup { lastEvent'.batch[1].id }
           ELSE /\ selectedImageId' = selectedImageId
                /\ selectedForProcessing' = selectedForProcessing
      ]_vars

----------------------------------------------------------------------------
(* Properties of the extraction *)

\* C11: an extraction that passes the size test is exactly one history step
\* (the old present goes to the end of past, future is emptied), the new
\* present is the cropped asset, named after the active image, followed by
\* the previous collection, the new asset is the active one, and the
\* processing set is the previous one with the new asset's id added.
C11_Extraction ==
    [][ (CropClick /\ lastCrop'.outcome = "done") =>
           LET image == getActiveImage(history.present, selectedImageId)[1]
               new   == history'.present[1]
           IN  /\ history'.past = Append(history.past, history.present)
               /\ history'.future = << >>
               /\ history'.present = << new >> \o history.present
               /\ new.name = << "Crop_" >> \o image.name
               /\ selectedImageId' = new.id
               /\ selectedForProcessing' = selectedForProcessing \cup { new.id }
      ]_vars

\* C11 witness: a crop has just added its asset to a collection whose other
\* asset stays marked for processing beside the new one
C11_Witness ==
    /\ lastCrop.outcome = "done"
    /\ lastEvent.op = "crop"
    /\ Len(history.present) >= 2
    /\ history.present[1] = lastEvent.batch[1]
    /\ selectedImageId = history.present[1].id
    /\ history.present[2].id \in selectedForProcessing
    /\ history.present[2].id # history.present[1].id
    /\ Cardinality(selectedForProcessing) = 2

\* C12: a selection at least 10 wide and 10 high can be extracted (the crop
\* button is there and handleCrop's size test lets it pass); a click on the
\* crop button with a selection less than 10 wide or less than 10 high
\* creates no asset and leaves the history, the active id, the processing
\* set and the selection as they are, and any other click extracts.
C12_SizeGate ==
    /\ []((mounted /\ selection # << >>) =>
             (selection[1].width >= 10 /\ selection[1].height >= 10
                 => cropButton(selection) /\ ~tooSmall(selection[1])))
    /\ [][ CropClick =>
             IF selection[1].width < 10 \/ selection[1].height < 10
             THEN /\ lastCrop'.outcome = "rejected"
                  /\ UNCHANGED << history, selectedImageId,
                                  selectedForProcessing, selection, issued >>
             ELSE /\ lastCrop'.outcome = "done"
                  /\ Len(history'.present) = Len(history.present) + 1
         ]_vars

\* C13: saving the result is exactly one history step, the new present is
\* the saved asset followed by the previous collection, the saved asset is
\* the active one, and the processing set stays as it is and does not hold
\* the saved asset's id.
C13_SaveLeavesProcessing ==
    [][ SaveResult =>
           LET newImg == history'.present[1]
           IN  /\ history'.past = Append(history.past, history.present)
               /\ history'.future = << >>
               /\ history'.present = << newImg >> \o history.present
               /\ newImg.name = << "Gen_", ".png" >>
               /\ selectedImageId' = newImg.id
               /\ selectedForProcessing' = selectedForProcessing
               /\ newImg.id \notin selectedForProcessing'
      ]_vars

\* C14: toggling an id of the collection puts it into the processing set if
\* it was not there and takes it out if it was, and changes nothing else;
\* toggling an id the collection does not hold changes nothing.
C14_ToggleOnlyPresent ==
    [][ \A id \in issued :
           ToggleCall(id) =>
              /\ UNCHANGED << history, selectedImageId >>
              /\ IF id \in Ids(history.present)
                 THEN /\ (id \in selectedForProcessing') # (id \in selectedForProcessing)
                      /\ selectedForProcessing' \ { id } = selectedForProcessing \ { id }
                 ELSE selectedForProcessing' = selectedForProcessing
      ]_vars

----------------------------------------------------------------------------
(* Properties of the selection on the canvas *)

\* The states of the selection: Empty (no pending rectangle), Dragging and
\* Committed
Dragging == isDragging /\ selection # << >>
Min(a, b) == IF a <= b THEN a ELSE b
Abs(a) == IF a < 0 THEN -a ELSE a

\* C15: a press of the pointer while Empty or Committed starts a drag: the
\* anchor is the pointer position and the pending rectangle is the empty
\* rectangle at the anchor; a press while Dragging changes neither the
\* anchor nor the pending rectangle.
C15_BeginOnlyWhenIdle ==
    [][ \A pos \in Points(Xs, Ys) :
           MouseDown(pos) =>
              IF Dragging
              THEN UNCHANGED << startPos, selection >>
              ELSE /\ isDragging'
                   /\ startPos' = pos
                   /\ selection' = << [ x |-> pos.x, y |-> pos.y,
                                        width |-> 0, height |-> 0 ] >>
      ]_vars

\* C16: the pending rectangle never has a negative width or height; a move
\* of the pointer while Dragging makes it the rectangle with x and y the
\* smaller coordinates of anchor and pointer and with width and height the
\* distances between them; a move in any other state leaves it as it is.
C16_DragRect ==
    /\ [](selection # << >> =>
             selection[1].width >= 0 /\ selection[1].height >= 0)
    /\ [][ \A pos \in Points(GeomXs, GeomYs) :
             MouseMove(pos) =>
                IF Dragging
                THEN selection' =
                        << [ x      |-> Min(startPos.x, pos.x),
                             y      |-> Min(startPos.y, pos.y),
                             width  |-> Abs(pos.x - startPos.x),
                             height |-> Abs(pos.y - startPos.y) ] >>
                ELSE selection' = selection
         ]_vars

\* C16 witness: a drag up and to the left of the anchor has given a
\* rectangle of positive width and height whose corner is the pointer's
C16_Witness ==
    /\ Dragging
    /\ selection[1].x < startPos.x
    /\ selection[1].y < startPos.y
    /\ selection[1].x + selection[1].width = startPos.x
    /\ selection[1].y + selection[1].height = startPos.y

\* C17: a pending selection is one drawn on the Image of the active asset,
\* and every step that changes the active asset leaves no pending selection.
C17_ResetOnActiveChange ==
    /\ []((mounted /\ selection # << >>) =>
             /\ imgElement # << >>
             /\ imgElement[1].src =
                   getActiveImage(history.present, selectedImageId)[1])
    /\ [][ getActiveImage(history'.present, selectedImageId')
               # getActiveImage(history.present, selectedImageId)
             => selection' = << >> ]_vars

\* C18: the pending rectangle lies inside the canvas as draw() has sized it.
C18_SelectionInsideCanvas ==
    (selection # << >> /\ canvas # << >>) =>
        /\ selection[1].x >= 0
        /\ selection[1].y >= 0
        /\ selection[1].x + selection[1].width <= canvas[1].width
        /\ selection[1].y + selection[1].height <= canvas[1].height

\* C21: a release of the pointer (or its leaving the canvas) while Dragging
\* leaves the selection Committed with the pending rectangle as it was,
\* whatever its size; while Empty it leaves the selection Empty; and it
\* never creates an asset or a history step.
C21_EndCommits ==
    [][ MouseUp =>
           /\ Dragging => /\ ~isDragging'
                           /\ selection' # << >>
                           /\ selection' = selection
           /\ selection = << >> => selection' = << >>
           /\ UNCHANGED << history, versions, cursor, issued, selectedImageId,
                           selectedForProcessing >>
      ]_vars

\* C21 witness: a rectangle without area is Committed: the pointer was
\* pressed and released at one place
C21_Witness ==
    /\ mounted
    /\ selection # << >>
    /\ ~isDragging
    /\ selection[1].width = 0
    /\ selection[1].height = 0
    /\ selection[1].x = startPos.x
    /\ selection[1].y = startPos.y
    /\ lastCrop = NoCrop

----------------------------------------------------------------------------
(* Properties of the mapping to source pixels *)

\* the fraction f is n / d
FracEq(f, n, d) == f[1] * d = n * f[2]

\* the fractions of r are the whole numbers x, y, w, h
RectIs(r, x, y, w, h) ==
    /\ FracEq(r.x, x, 1)
    /\ FracEq(r.y, y, 1)
    /\ FracEq(r.width, w, 1)
    /\ FracEq(r.height, h, 1)

\* C19: the rectangle an extraction takes from the source image is the
\* selection with x and width multiplied by sourceW / displayW and y and
\* height by sourceH / displayH; for a 2000x1000 image shown at 500x250 the
\* selection {100,50,100,50} gives {400,200,400,200}, and for a 2000x500
\* image shown at 500x125 the selection {100,25,50,25} gives
\* {400,100,200,100}.
C19_SourceRect ==
    [][ (CropClick /\ lastCrop'.outcome = "done") =>
           LET img     == imgElement[1]
               display == canvas[1]
               sel     == selection[1]
               r       == lastCrop'.rect[1]
           IN  /\ FracEq(r.x, sel.x * img.width, display.width)
               /\ FracEq(r.y, sel.y * img.height, display.height)
               /\ FracEq(r.width, sel.width * img.width, display.width)
               /\ FracEq(r.height, sel.height * img.height, display.height)
               /\ ( /\ img.width = 2000 /\ img.height = 1000
                    /\ display = [ width |-> 500, height |-> 250 ]
                    /\ sel = [ x |-> 100, y |-> 50, width |-> 100,
                               height |-> 50 ] )
                  => RectIs(r, 400, 200, 400, 200)
               /\ ( /\ img.width = 2000 /\ img.height = 500
                    /\ display = [ width |-> 500, height |-> 125 ]
                    /\ sel = [ x |-> 100, y |-> 25, width |-> 50,
                               height |-> 25 ] )
                  => RectIs(r, 400, 100, 200, 100)
      ]_vars

\* C19 witness: the extraction of {100,25,50,25} from the 2000x500 image
\* shown at 500x125 has just taken {400,100,200,100}
C19_Witness ==
    /\ lastCrop.outcome = "done"
    /\ lastCrop.from[1].width = 2000
    /\ lastCrop.from[1].height = 500
    /\ canvas = << [ width |-> 500, height |-> 125 ] >>
    /\ lastCrop.rect[1].x = << 100 * 2000, 500 >>
    /\ RectIs(lastCrop.rect[1], 400, 100, 200, 100)

----------------------------------------------------------------------------
(* Properties of a batch with files that fail to decode *)

\* s is t with one asset named after file added at its end
Extended(s, t, file) ==
    /\ Len(s) = Len(t) + 1
    /\ SubSeq(s, 1, Len(t)) = t
    /\ s[Len(s)].name = << file >>
    /\ s[Len(s)].id \notin issued

\* C20: when the decoding of a file of a batch settles, the import goes on
\* to the next file; a decoded file adds its asset after those of the files
\* before it and a file that fails adds nothing and takes nothing away; the
\* commit adds exactly the assets gathered this way, in their order, to the
\* collection; and no step of the import touches status or error message.
C20_DecodeFailureSkipped ==
    [][ \A i \in 1..Len(imports), ok \in BOOLEAN :
           /\ FileDecoded(i, ok) =>
                 /\ imports'[i].files = Tail(imports[i].files)
                 /\ IF ok
                    THEN Extended(imports'[i].newImages, imports[i].newImages,
                                  imports[i].files[1])
                    ELSE imports'[i].newImages = imports[i].newImages
                 /\ UNCHANGED << history, status, errorMessage >>
           /\ ImportCommit(i, ok) =>
                 /\ IF ok
                    THEN Extended(lastEvent'.batch, imports[i].newImages,
                                  imports[i].files[1])
                    ELSE lastEvent'.batch = imports[i].newImages
                 /\ \/ history'.present = lastEvent'.batch \o history.present
                    \/ history'.present = history.present \o lastEvent'.batch
                 /\ UNCHANGED << status, errorMessage >>
      ]_vars

\* C20 witness: the first batch, of two files, has been committed with one
\* asset, one file having failed to decode, and there is no error state
C20_Witness ==
    /\ lastEvent.op = "import"
    /\ lastEvent.cut = 0
    /\ Len(history.past) = 1
    /\ Len(lastEvent.batch) = 1
    /\ Len(history.present) = 1
    /\ rnd = 1
    /\ inputs = 2
    /\ imports = << >>
    /\ \A id \in issued : id # ClockId(id[1])
    /\ prompt = ""
    /\ status = "IDLE"
    /\ errorMessage = Null

----------------------------------------------------------------------------
(* Properties of imports that overlap other events *)

\* how often the asset x is in the collection c
Count(x, c) == Cardinality({ i \in 1..Len(c) : c[i] = x })

\* the assets of the collection c
Assets(c) == { c[i] : i \in 1..Len(c) }

\* C22: whatever happened while an import was decoding (another import, a
\* crop, a save, undo, redo), its commit loses nothing: the new present
\* holds every asset of the batch and every asset of the present it found,
\* each exactly once; and crops and saves keep every asset of the present
\* they find, so that after two imports with no undo between their commits
\* the present holds both batches.
C22_OverlappingImports ==
    [][ /\ SetStep => Assets(history.present) \subseteq Assets(history'.present)
        /\ (\E i \in 1..Len(imports), ok \in BOOLEAN : ImportCommit(i, ok)) =>
              \A x \in Assets(history.present) \cup Assets(lastEvent'.batch) :
                 Count(x, history'.present) = 1
      ]_vars

\* C22 witness: an import that began when no asset was active has committed
\* after another import, begun beside it, had made its asset the active
\* one: the collection holds the assets of both
C22_Witness ==
    /\ lastEvent.op = "import"
    /\ lastEvent.batch # << >>
    /\ lastEvent.sel # None
    /\ selectedImageId = lastEvent.batch[1].id
    /\ Len(history.present) = 2
    /\ history.present[1].name = << "a.png" >>
    /\ history.present[2] = lastEvent.batch[1]
    /\ history.present[1].id = lastEvent.sel
    /\ Len(history.past) = 2

----------------------------------------------------------------------------
(* Properties of the active asset *)

\* C23: in every state reached by imports, crops, saves, clicks on the
\* library, undo and redo, each followed by the "sync selections" effect, the
\* active id is none or the id of an asset of the current collection.
C23_ActiveWithinCollection ==
    selectedImageId = None \/ selectedImageId \in Ids(history.present)

\* C23 witness: an undo took away the only asset, which was the active one,
\* and no asset is active
C23_Witness ==
    /\ lastEvent.op = "undo"
    /\ lastEvent.sel # None
    /\ lastEvent.sel \notin Ids(history.present)
    /\ history.present = << >>
    /\ selectedImageId = None
    /\ canRedo(history)

\* C24: an extraction takes its pixels from the Image of the active asset,
\* the asset that gives the new asset its name (and its mime type), also
\* when the active asset has changed and its Image is still loading.
C24_OneSource ==
    [][ (CropClick /\ lastCrop'.outcome = "done") =>
           LET image == getActiveImage(history.present, selectedImageId)[1]
               new   == history'.present[1]
           IN  /\ lastCrop'.from[1].src = image
               /\ new.name = << "Crop_" >> \o lastCrop'.from[1].src.name
      ]_vars

----------------------------------------------------------------------------
(* Properties of an import without assets *)

\* C25: the commit of an import of which no file was decoded changes
\* nothing: past, present and future stay as they are, and so does canUndo.
C25_EmptyImportNoOp ==
    [][ \A i \in 1..Len(imports), ok \in BOOLEAN :
           (ImportCommit(i, ok) /\ lastEvent'.batch = << >>) =>
              /\ history' = history
              /\ canUndo(history') = canUndo(history)
      ]_vars

----------------------------------------------------------------------------
(* Properties of the crop button *)

\* C26: the crop button is there exactly for the selections handleCrop's
\* size test lets pass, those at least 10 wide and 10 high, and every click
\* on it creates an asset.
C26_ButtonMatchesGate ==
    /\ []((mounted /\ imgElement # << >> /\ selection # << >>) =>
             (cropButton(selection) <=>
                 (selection[1].width >= 10 /\ selection[1].height >= 10)))
    /\ [][ CropClick =>
             /\ lastCrop'.outcome = "done"
             /\ Len(history'.present) = Len(history.present) + 1
         ]_vars

----------------------------------------------------------------------------
(* Properties of the generation *)

GateMessages ==
    { "Please select at least one image to edit/synthesize.",
      "Please enter a prompt describing the desired changes." }

\* C27: a click on generate with nothing marked for processing or with a
\* blank prompt sends no request, sets an error message and leaves status,
\* result image and collection as they are; any other click makes the
\* status GENERATING; when the request settles the status becomes SUCCESS
\* with a result image, or ERROR with the message of the service's error as
\* the error message; and no step of the generation changes the collection.
C27_Generation ==
    [][ /\ Generate =>
              /\ IF selectedForProcessing = {} \/ Trim(prompt) = ""
                 THEN /\ errorMessage' \in GateMessages
                      /\ status' # "GENERATING"
                      /\ UNCHANGED << status, resultImage >>
                 ELSE /\ status' = "GENERATING"
                      /\ UNCHANGED resultImage
              /\ UNCHANGED history
        /\ \A r \in Responses :
              GenerateSettled(r) =>
                 /\ status = "GENERATING"
                 /\ IF r.ok
                    THEN /\ status' = "SUCCESS"
                         /\ resultImage' # Null
                    ELSE /\ status' = "ERROR"
                         /\ errorMessage' # Null
                         /\ r.message # "" => errorMessage' = r.message
                         /\ UNCHANGED resultImage
                 /\ UNCHANGED history
      ]_vars

\* C27 witness: a request was sent for a.png with the prompt "edit", the
\* service failed with a message, and that message is the error message
C27_Witness ==
    /\ status = "ERROR"
    /\ errorMessage = "No image data found in the response."
    /\ resultImage = Null
    /\ prompt = "edit"
    /\ selectedForProcessing # {}
    /\ Len(history.present) = 1

====
